---- MODULE Spec2Model ----
(***************************************************************************)
(* The workflow orchestrator of the EvalMate client (HomePage with the     *)
(* upload queue): the resource state store (useAppState), the upload task  *)
(* queue and its processor, the upload handlers, the selection handlers,   *)
(* the 'new evaluation' reset, the evaluation orchestrator                 *)
(* (handleEvaluate), the activity log, the chat about an evaluation        *)
(* (ChatInterface with useChatSession), and the submission upload control  *)
(* (UploadSubmission).                                                     *)
(*                                                                         *)
(* React semantics used by the model:                                      *)
(*  - every setState(prev => ...) updater is applied to the latest store,  *)
(*    so a handler's synchronous stretch between two awaits is one step;   *)
(*  - a useCallback closure sees the store of the render it was created    *)
(*    in: an async function keeps the values it captured when it was       *)
(*    invoked (cr, cq of a queue run; r, q, s, f of an evaluate run);      *)
(*  - an await of a network call or of a timer is a suspension point at    *)
(*    which any other handler may run.                                     *)
(***************************************************************************)
EXTENDS Integers, Sequences, FiniteSets, TLC

\* ---- bounds ----
MaxUploads == 3      \* upload tasks enqueued in one behaviour of SpecUpload
MaxBusy == 1         \* upload tasks enqueued in one behaviour of Spec
MaxRuns == 2         \* activations of handleEvaluate alive at one time
MaxPending == 1      \* scheduled delayed clearProgress timers
NumLib == 1          \* resources of each kind offered by the selectors
NumChoices == 2      \* rubrics offered by the selector in SpecSelect
MaxTicks == 1        \* ticks of one progress interval timer
NumSlots == 2        \* concurrently tracked activations of processUploadQueue
MaxLog == 2          \* latest messages of the activity log kept in SpecUploadLog, SpecEvalLog
MaxSessions == 2     \* create-session calls issued in one behaviour
MaxSends == 2        \* chat messages sent in one behaviour
MaxHistory == 8      \* messages of the activity log in SpecHistory
MaxAlone == 1        \* evaluate activations alive at once in SpecHistory
MaxKeys == 2         \* characters of the student handle field
NumFiles == 1        \* files offered to the submission file input

\* ---- program constants ----
Null == 0

LOADING_STATES ==
  [IDLE |-> "idle", UPLOADING |-> "uploading",
   BUILDING |-> "building", EVALUATING |-> "evaluating"]

VARIABLES
  state,              \* useAppState: the resource state store
  uploadQueue,        \* useState([]) of HomePage: pending upload tasks
  isProcessingQueue,  \* useState(false) of HomePage
  procs,              \* activations of processUploadQueue and their handler
  evals,              \* activations of handleEvaluate
  pendingClear,       \* number of scheduled setTimeout(clearProgress, 500)
  nextTask,           \* next upload task identity (enqueue order)
  lastStarted,        \* history: the task whose handler started last
  chat,               \* the chat modal, its useChatSession state and calls
  logLimit,           \* how many of the latest log messages are kept
  form                \* useState of the UploadSubmission control

vars == <<state, uploadQueue, isProcessingQueue, procs, evals, pendingClear,
          nextTask, lastStarted, chat, logLimit, form>>

Min(a, b) == IF a < b THEN a ELSE b

LibIds(n) == {100 + k : k \in 1..n}
Slots == 1..NumSlots
Runs == 1..MaxRuns

\* ------------------------------------------------------------------------
\* Resource state store (useAppState)
\* ------------------------------------------------------------------------
\* A rubric, question or submission is its id (Null when none is selected).
\* fusion is <<rubric id, question id, submission id>>, the ids the server
\* built it from; result is <<"result">>, the response of the evaluate call;
\* progress is <<type, target, value>>; each is Absent when the field is null.
\* messages is the activity log, each message reduced to its kind: "note"
\* (what the user or the page did), "success", "failure" or "warning".
Absent == <<>>

InitialState ==
  [selectedRubric |-> Null, selectedQuestion |-> Null,
   selectedSubmission |-> Null, fusion |-> Absent, result |-> Absent,
   evalId |-> Null, messages |-> <<>>, loading |-> "idle",
   progress |-> Absent]

\* The last n items of a sequence
LastN(q, n) ==
  IF Len(q) <= n THEN q ELSE SubSeq(q, Len(q) - n + 1, Len(q))

\* messages: [...prev.messages, message]; the model keeps the latest
\* logLimit messages of the log
addMessage_Mut(s, m) ==
  [s EXCEPT !.messages = LastN(<<m>>, logLimit)]

addMessage(s, m) ==
  [s EXCEPT !.messages = LastN(Append(@, m), logLimit)]

setLoading(s, l) == [s EXCEPT !.loading = l]

setProgress(s, p) == [s EXCEPT !.progress = p]

clearProgress(s) == [s EXCEPT !.progress = Absent]

\* ------------------------------------------------------------------------
\* Enqueueing upload tasks (handleRubricUpload / handleQuestionUpload /
\* handleSubmissionUpload): each only updates uploadQueue
\* ------------------------------------------------------------------------
NewTask(type) == [id |-> nextTask, type |-> type]

EnqueueRubric(q, t) == <<t>>

EnqueueAppend(q, t) == Append(q, t)

\* setUploadQueue of an upload callback
EnqueueStep(limit, newQueue) ==
  /\ nextTask <= limit
  /\ uploadQueue' = newQueue
  /\ nextTask' = nextTask + 1

Enqueue(limit, newQueue) ==
  /\ EnqueueStep(limit, newQueue)
  /\ UNCHANGED <<form, chat, logLimit, state, isProcessingQueue, procs, evals, pendingClear,
                 lastStarted>>

handleRubricUpload(limit) ==
  Enqueue(limit, EnqueueRubric(uploadQueue, NewTask("rubric")))

handleQuestionUpload(limit) ==
  Enqueue(limit, EnqueueAppend(uploadQueue, NewTask("question")))

handleSubmissionUpload(limit) ==
  Enqueue(limit, EnqueueAppend(uploadQueue, NewTask("submission")))

\* ------------------------------------------------------------------------
\* processUploadQueue
\* ------------------------------------------------------------------------
\* prev.slice(1)
Slice1(q) == IF q = <<>> THEN <<>> ELSE Tail(q)

\* The branch conditions of the for loop, on the ids the activation captured
Dispatchable(task, cr, cq) ==
  CASE task.type = "rubric" -> TRUE
    [] task.type = "question" -> cr # Null
    [] task.type = "submission" -> cr # Null /\ cq # Null

\* What the store holds for the same test
PrereqInStore(task, s) ==
  CASE task.type = "rubric" -> TRUE
    [] task.type = "question" -> s.selectedRubric # Null
    [] task.type = "submission" -> s.selectedRubric # Null /\ s.selectedQuestion # Null

\* The iterations of the loop that call no handler: they do not suspend, so
\* they run to the next item whose handler is called or to the end of the
\* captured queue.  rest: the items still to visit; q: the live uploadQueue.
RECURSIVE SkipLoop(_, _, _, _)
SkipLoop(rest, q, cr, cq) ==
  IF rest = <<>> \/ Dispatchable(Head(rest), cr, cq)
  THEN [rest |-> rest, q |-> q]
  ELSE SkipLoop(Tail(rest), Slice1(q), cr, cq)

FreeProc == [pc |-> "free", rest |-> <<>>, cr |-> Null, cq |-> Null,
             rubric_id |-> Null, question_id |-> Null, pv |-> 0, ticks |-> 0,
             last |-> 0]

\* The start of an upload handler up to its first await: setLoading,
\* setProgress(0), the upload call is issued and reports onProgress(0)
HandlerStart(s, task) ==
  setProgress(addMessage(setLoading(s, LOADING_STATES.UPLOADING), "note"),
              <<"upload", task.type, 0>>)

\* The loop from the item at the head of rest: skipped items, then either the
\* next handler starts or the activation ends.  base: the activation (with
\* the ids it captured); rest: the captured items still to visit; q: the
\* live uploadQueue; s: the store.
Loop(base, rest, q, s) ==
  LET k == SkipLoop(rest, q, base.cr, base.cq)
  IN IF k.rest = <<>>
     THEN [proc |-> FreeProc, s |-> s, q |-> k.q, ended |-> TRUE]
     ELSE [proc |-> [base EXCEPT !.pc = "upload", !.rest = k.rest,
                        !.rubric_id = IF Head(k.rest).type = "rubric" THEN Null ELSE base.cr,
                        !.question_id = IF Head(k.rest).type = "submission" THEN base.cq ELSE Null,
                        !.pv = 0, !.ticks = 0, !.last = 0],
           s |-> HandlerStart(s, Head(k.rest)), q |-> k.q, ended |-> FALSE]

\* The effect of one stretch of the loop of activation p on the variables
ApplyLoop(p, k, processing) ==
  /\ procs' = [procs EXCEPT ![p] = k.proc]
  /\ state' = k.s
  /\ uploadQueue' = k.q
  /\ isProcessingQueue' = IF k.ended THEN FALSE ELSE processing
  /\ lastStarted' = IF k.ended THEN lastStarted ELSE Head(k.proc.rest).id
  /\ UNCHANGED <<form, chat, logLimit, evals, pendingClear, nextTask>>

\* A guard that looks at the queue only and not at isProcessingQueue
QueueGuard_Mut(processing, q) == q # <<>>

\* if (isProcessingQueue || uploadQueue.length === 0) return;
QueueGuard(processing, q) == ~processing /\ q # <<>>

\* The effect of useEffect: processUploadQueue is called after a render in
\* which the queue, the selection or the function itself changed; it goes on
\* only past its guard.  It captures the queue and the selected ids.
processUploadQueue(p) ==
  /\ QueueGuard(isProcessingQueue, uploadQueue)
  /\ procs[p].pc = "free"
  /\ \A o \in Slots : o < p => procs[o].pc # "free"
  /\ LET base == [FreeProc EXCEPT !.cr = state.selectedRubric,
                                  !.cq = state.selectedQuestion]
     IN ApplyLoop(p, Loop(base, uploadQueue, uploadQueue, state), TRUE)

\* A handler has returned: setUploadQueue(prev => prev.slice(1)) and the loop
\* goes on with the next captured item.  s: the store the handler left.
HandlerSettle(p, s) ==
  ApplyLoop(p, Loop(procs[p], Tail(procs[p].rest), Slice1(uploadQueue), s),
            isProcessingQueue)

\* catch: clearProgress(), addMessage of the error; finally: setLoading(IDLE)
HandlerFailed(s) ==
  setLoading(addMessage(clearProgress(s), "failure"), LOADING_STATES.IDLE)

\* The setState of a handler after its fetch, by kind of task, then
\* clearProgress(), addMessage of the success and finally setLoading(IDLE)
HandlerSucceeded(s, task) ==
  LET w == CASE task.type = "rubric" ->
                  [s EXCEPT !.selectedRubric = task.id,
                            !.fusion = Absent, !.result = Absent]
             [] task.type = "question" ->
                  [s EXCEPT !.selectedQuestion = task.id,
                            !.fusion = Absent, !.result = Absent]
             [] task.type = "submission" ->
                  [s EXCEPT !.selectedSubmission = task.id,
                            !.fusion = Absent, !.result = Absent]
  IN setLoading(addMessage(clearProgress(w), "success"), LOADING_STATES.IDLE)

\* ---- uploadFile: the upload call of a handler in flight ----
\* progressValue is kept in tenths of a percent.  Math.random() * 12 + 3 of
\* one tick, and event.loaded / event.total of one progress event in percent
Increments == {34, 146}
Loaded == {15, 100}

\* Math.round of a value in tenths
Round(x) == (x + 5) \div 10

\* onProgress of the handler: setProgress({type: "upload", value, target})
Report(p, v) ==
  setProgress(state, <<"upload", Head(procs[p].rest).type, v>>)

ProcOnly(p, np) ==
  /\ procs' = [procs EXCEPT ![p] = np]
  /\ UNCHANGED <<form, chat, logLimit, uploadQueue, isProcessingQueue, evals, pendingClear, nextTask,
                 lastStarted>>

\* the interval timer of uploadFile
UploadTick(p, inc) ==
  /\ procs[p].pc = "upload"
  /\ procs[p].ticks < MaxTicks
  /\ procs[p].pv < 850
  /\ LET v == Min(Round(procs[p].pv + inc), 85)
     IN /\ state' = Report(p, v)
        /\ ProcOnly(p, [procs[p] EXCEPT !.pv = @ + inc, !.ticks = @ + 1,
                                        !.last = v])

\* a progress event moves progressValue forward only
Accepts_Mut(adjusted, pv) == TRUE

Accepts(adjusted, pv) == adjusted > pv

\* the progress event of the transport
XhrProgress(p, up) ==
  /\ procs[p].pc = "upload"
  /\ LET adjusted == Min(up * 3, 300)
     IN /\ Accepts(adjusted, procs[p].pv)
        /\ state' = Report(p, Round(adjusted))
        /\ ProcOnly(p, [procs[p] EXCEPT !.pv = adjusted, !.last = Round(adjusted)])

\* load with a 2xx status: onProgress(100), the promise resolves 300 ms later
XhrLoad(p) ==
  /\ procs[p].pc = "upload"
  /\ state' = Report(p, 100)
  /\ ProcOnly(p, [procs[p] EXCEPT !.pc = "loaded", !.last = 100])

\* load with another status, error or abort: the promise rejects
XhrFail(p) ==
  /\ procs[p].pc = "upload"
  /\ HandlerSettle(p, HandlerFailed(state))

\* the upload call resolves: the handler issues the fetch by id; or the
\* response does not parse and the promise rejects
UploadResolve(p, ok) ==
  /\ procs[p].pc = "loaded"
  /\ IF ok
     THEN /\ state' = state
          /\ ProcOnly(p, [procs[p] EXCEPT !.pc = "fetch"])
     ELSE HandlerSettle(p, HandlerFailed(state))

\* the fetch by id settles
FetchResolve(p, ok) ==
  /\ procs[p].pc = "fetch"
  /\ HandlerSettle(p, IF ok THEN HandlerSucceeded(state, Head(procs[p].rest))
                            ELSE HandlerFailed(state))

\* ------------------------------------------------------------------------
\* Selection handlers and the 'new evaluation' reset
\* ------------------------------------------------------------------------
StoreOnly ==
  UNCHANGED <<form, chat, logLimit, uploadQueue, isProcessingQueue, procs, evals, pendingClear,
              nextTask, lastStarted>>

\* Sidebar: the questions tab needs a rubric, the submissions tab a rubric
\* and a question
hasRubric(s) == s.selectedRubric # Null

hasQuestion(s) == s.selectedQuestion # Null

\* A rubric selection that leaves the selected submission in place
RubricSelected_Mut(s, rubric) ==
  [s EXCEPT !.selectedRubric = rubric, !.selectedQuestion = Null,
            !.fusion = Absent, !.result = Absent]

RubricSelected(s, rubric) ==
  [s EXCEPT !.selectedRubric = rubric, !.selectedQuestion = Null,
            !.selectedSubmission = Null, !.fusion = Absent, !.result = Absent]

QuestionSelected(s, question) ==
  [s EXCEPT !.selectedQuestion = question, !.selectedSubmission = Null,
            !.fusion = Absent, !.result = Absent]

SubmissionSelected(s, submission) ==
  [s EXCEPT !.selectedSubmission = submission,
            !.fusion = Absent, !.result = Absent]

handleRubricSelect(rubric) ==
  /\ state' = addMessage(RubricSelected(state, rubric), "note")
  /\ StoreOnly

handleQuestionSelect(question) ==
  /\ hasRubric(state)
  /\ state' = addMessage(QuestionSelected(state, question), "note")
  /\ StoreOnly

handleSubmissionSelect(submission) ==
  /\ hasRubric(state) /\ hasQuestion(state)
  /\ state' = addMessage(SubmissionSelected(state, submission), "note")
  /\ StoreOnly

NewEvaluation(s) ==
  [s EXCEPT !.selectedRubric = Null, !.selectedQuestion = Null,
            !.selectedSubmission = Null, !.fusion = Absent, !.result = Absent,
            !.evalId = Null, !.messages = <<>>, !.loading = "idle",
            !.progress = Absent]

handleNewEvaluation ==
  /\ state' = addMessage(NewEvaluation(state), "note")
  /\ StoreOnly

\* ------------------------------------------------------------------------
\* Evaluation orchestrator (handleEvaluate) and its button
\* ------------------------------------------------------------------------
canEvaluate(s) ==
  s.selectedRubric # Null /\ s.selectedQuestion # Null /\ s.selectedSubmission # Null

isEvaluateDisabled(s) ==
  \/ ~canEvaluate(s)
  \/ s.loading = LOADING_STATES.BUILDING
  \/ s.loading = LOADING_STATES.EVALUATING

\* r, q, s: the ids the activation captured; f: whether the fusion it
\* captured is set (it is only tested)
NoEval == [pc |-> "none", r |-> Null, q |-> Null, s |-> Null, f |-> FALSE,
           timer |-> FALSE, pv |-> 0, ticks |-> 0, nBuild |-> 0, nEval |-> 0,
           evalCtx |-> TRUE, leaked |-> 0]

EvalOnly(i, e) ==
  /\ evals' = [evals EXCEPT ![i] = e]
  /\ UNCHANGED <<form, chat, logLimit, uploadQueue, isProcessingQueue, procs, nextTask, lastStarted>>

\* The store holds a context built from the ids it selects
ContextCurrent(s) ==
  s.fusion = <<s.selectedRubric, s.selectedQuestion, s.selectedSubmission>>

\* Step 2 up to its first await: setLoading(EVALUATING), setProgress(0), a
\* new interval timer
EvaluatingStarted(s) ==
  setProgress(addMessage(setLoading(s, LOADING_STATES.EVALUATING), "note"),
              <<"evaluating", "none", 0>>)

\* api.evaluate is issued by activation e
EvaluateIssued(e, s) ==
  [e EXCEPT !.pc = "eval", !.nEval = @ + 1, !.evalCtx = ContextCurrent(s)]

\* const currentFusion = state.fusion || (await api.buildFusion(...)), on the
\* fusion the activation captured, then api.evaluate
Step2_Mut(e, s) ==
  [e EXCEPT !.timer = TRUE, !.pv = 0, !.ticks = 0, !.pc = "build2",
            !.nBuild = @ + 1]

\* progressInterval = setInterval(...): an interval still held by the
\* variable is no longer reachable by clearInterval
Assigned(e) == [e EXCEPT !.leaked = IF e.timer THEN @ + 1 ELSE @]

Step2(e, s) ==
  LET t == [Assigned(e) EXCEPT !.timer = TRUE, !.pv = 0, !.ticks = 0]
  IN IF e.f
     THEN EvaluateIssued(t, s)
     ELSE [t EXCEPT !.pc = "build2", !.nBuild = @ + 1]

\* Step 1 up to its await: setLoading(BUILDING), setProgress(0), the interval
\* timer, api.buildFusion is issued
Step1(e, s) ==
  [Assigned(e) EXCEPT !.pc = "build1", !.timer = TRUE, !.nBuild = @ + 1]

BuildingStarted(s) ==
  setProgress(addMessage(setLoading(s, LOADING_STATES.BUILDING), "note"),
              <<"building", "none", 0>>)

\* The entry guard of handleEvaluate found a selection missing:
\* addMessage of the warning, return
Refused_Mut(s) == setLoading(addMessage(s, "warning"), LOADING_STATES.BUILDING)

Refused(s) == addMessage(s, "warning")

\* handleEvaluate is called: by a click on the Run Evaluation button, which
\* is enabled only with the three selections and while no activation builds
\* or evaluates, or by any other caller while a selection is missing
handleEvaluate(i) ==
  /\ evals[i].pc = "none"
  /\ \A o \in Runs : o < i => evals[o].pc # "none"
  /\ ~canEvaluate(state) \/ ~isEvaluateDisabled(state)
  /\ LET e == [NoEval EXCEPT !.r = state.selectedRubric,
                             !.q = state.selectedQuestion,
                             !.s = state.selectedSubmission,
                             !.f = (state.fusion # Absent)]
     IN IF ~canEvaluate(state)
        THEN /\ state' = Refused(state)
             /\ EvalOnly(i, NoEval)
        ELSE IF state.fusion = Absent
        THEN /\ state' = BuildingStarted(state)
             /\ EvalOnly(i, Step1(e, state))
        ELSE /\ state' = EvaluatingStarted(state)
             /\ EvalOnly(i, Step2(e, state'))
  /\ UNCHANGED pendingClear

\* catch: clearInterval, clearProgress(), addMessage of the error;
\* finally: setLoading(IDLE)
EvalFailed_Mut(i) ==
  /\ state' = setLoading(addMessage(state, "failure"), LOADING_STATES.IDLE)
  /\ EvalOnly(i, NoEval)
  /\ UNCHANGED pendingClear

EvalFailed_Leak(i) ==
  /\ state' = setLoading(addMessage(clearProgress(state), "failure"),
                         LOADING_STATES.IDLE)
  /\ EvalOnly(i, [NoEval EXCEPT !.timer = TRUE])
  /\ UNCHANGED pendingClear

EvalFailed(i) ==
  /\ state' = setLoading(addMessage(clearProgress(state), "failure"),
                         LOADING_STATES.IDLE)
  /\ EvalOnly(i, NoEval)
  /\ UNCHANGED pendingClear

\* The fusion the server returns for the ids of the call
BuiltFusion(e) == <<e.r, e.q, e.s>>

\* api.buildFusion of step 1 settles
BuildResolve(i, ok) ==
  /\ evals[i].pc = "build1"
  /\ IF ok
     THEN /\ state' = addMessage(
                 [setProgress(state, <<"building", "none", 100>>)
                    EXCEPT !.fusion = BuiltFusion(evals[i]), !.result = Absent],
                 "success")
          /\ EvalOnly(i, [evals[i] EXCEPT !.pc = "pad", !.timer = FALSE])
          /\ UNCHANGED pendingClear
     ELSE EvalFailed(i)

\* The minimum duration and the two seconds have passed: clearProgress(),
\* then step 2
PadElapsed(i) ==
  /\ evals[i].pc = "pad"
  /\ state' = EvaluatingStarted(clearProgress(state))
  /\ EvalOnly(i, Step2(evals[i], state'))
  /\ UNCHANGED pendingClear

\* api.buildFusion of step 2 settles
Build2Resolve(i, ok) ==
  /\ evals[i].pc = "build2"
  /\ IF ok
     THEN /\ state' = state
          /\ EvalOnly(i, EvaluateIssued(evals[i], state))
          /\ UNCHANGED pendingClear
     ELSE EvalFailed(i)

\* eval_id of the response: optional, and the server names each evaluation
\* it stores with an id of its own
EvalIds == {Null, 200 + 1, 200 + 2}

\* api.evaluate settles
EvalResolve(i, ok, evalId) ==
  /\ evals[i].pc = "eval"
  /\ IF ok
     THEN /\ pendingClear < MaxPending
          /\ state' = setLoading(
                 addMessage(
                   [setProgress(state, <<"evaluating", "none", 100>>)
                      EXCEPT !.result = <<"result">>,
                             !.evalId = evalId],
                   "success"),
                 LOADING_STATES.IDLE)
          /\ EvalOnly(i, NoEval)
          /\ pendingClear' = pendingClear + 1
     ELSE EvalFailed(i)

\* A tick of the interval timer of activation i
EvalTick(i) ==
  /\ evals[i].timer
  /\ evals[i].ticks < MaxTicks
  /\ LET building == evals[i].pc = "build1"
         v == IF building THEN Min(evals[i].pv + 2, 85) ELSE Min(evals[i].pv + 3, 90)
     IN /\ state' = setProgress(state, <<IF building THEN "building" ELSE "evaluating", "none", v>>)
        /\ EvalOnly(i, [evals[i] EXCEPT !.pv = v, !.ticks = @ + 1])
  /\ UNCHANGED pendingClear

\* setTimeout(() => clearProgress(), 500) fires
DelayedClear ==
  /\ pendingClear > 0
  /\ state' = clearProgress(state)
  /\ pendingClear' = pendingClear - 1
  /\ UNCHANGED <<form, chat, logLimit, uploadQueue, isProcessingQueue, procs, evals, nextTask,
                 lastStarted>>

\* ------------------------------------------------------------------------
\* Chat about an evaluation (HomePage Modal, ChatInterface, useChatSession)
\* ------------------------------------------------------------------------
\* open: showChatModal, ChatInterface is mounted; dep: the evalData?.eval_id
\* the create effect last ran with; sessionId, messages, loading, error: the
\* state of useChatSession (error reduced to whether it is set); creating:
\* create-session calls in flight of the mounted ChatInterface; orphans:
\* those of dismissed ones; sending: a send-message call is in flight;
\* before: history, the messages when that call was made; sent: sends so
\* far; sessions: for each session the server created, in order of
\* creation, the number of delete-session calls issued for it.
NoChat ==
  [open |-> FALSE, dep |-> Null, sessionId |-> Null, messages |-> <<>>,
   loading |-> FALSE, error |-> FALSE, creating |-> 0, orphans |-> 0,
   sending |-> FALSE, before |-> <<>>, sent |-> 0, sessions |-> <<>>,
   status |-> Null, thrown |-> <<>>, calls |-> {}, deleting |-> 0]

ChatOnly(c) ==
  /\ chat' = c
  /\ UNCHANGED <<state, uploadQueue, isProcessingQueue, procs, evals,
                 pendingClear, nextTask, lastStarted, logLimit, form>>

\* evalData of ChatInterface: <<eval id, rubric id, question id, submission
\* id>>, or null
evalData(s) ==
  IF s.result # Absent /\ s.evalId # Null
  THEN <<s.evalId, s.selectedRubric, s.selectedQuestion, s.selectedSubmission>>
  ELSE Absent

\* evalData?.eval_id
EvalDataId(s) == IF evalData(s) = Absent THEN Null ELSE evalData(s)[1]

CanCreate(c) == Len(c.sessions) + c.creating + c.orphans < MaxSessions

\* createSession up to its await: setError(null), chatAPI.createSession
createSession(c) == [c EXCEPT !.error = FALSE, !.creating = @ + 1]

\* chatAPI.deleteSession(sid) is called
deleteSession(c, sid) ==
  [c EXCEPT !.sessions[sid] = @ + 1, !.deleting = @ + 1]

\* The cleanup of the effect on sessionId
Cleanup_Mut(c) == c

Cleanup(c) == IF c.sessionId # Null THEN deleteSession(c, c.sessionId) ELSE c

\* chatAPI.deleteSession settles: .catch logs a failure, nothing else runs
DeleteResolve(ok) ==
  /\ chat.deleting > 0
  /\ ChatOnly([chat EXCEPT !.deleting = @ - 1])

\* The effect on evalData?.eval_id: if (evalData) createSession()
SessionEffectRun(c, s) ==
  LET m == [c EXCEPT !.dep = EvalDataId(s)]
  IN IF evalData(s) # Absent THEN createSession(m) ELSE m

\* onOpenChat of the results panel, which shows its chat button only with
\* a result: the modal opens, ChatInterface mounts and its effects run
OpenChat ==
  /\ ~chat.open
  /\ state.result # Absent
  /\ evalData(state) # Absent => CanCreate(chat)
  /\ ChatOnly(SessionEffectRun([chat EXCEPT !.open = TRUE], state))

\* onClose of the modal: ChatInterface unmounts, the cleanup runs, the hook
\* state is gone and calls in flight resolve into nothing
CloseChat ==
  /\ chat.open
  /\ ChatOnly([NoChat EXCEPT !.orphans = chat.orphans + chat.creating,
                             !.sent = chat.sent,
                             !.sessions = Cleanup(chat).sessions,
                             !.deleting = Cleanup(chat).deleting])

\* A render of the mounted ChatInterface with another evalData?.eval_id
SessionEffect ==
  /\ chat.open
  /\ chat.dep # EvalDataId(state)
  /\ evalData(state) # Absent => CanCreate(chat)
  /\ ChatOnly(SessionEffectRun(chat, state))

\* chatAPI.createSession settles in the mounted ChatInterface: the server
\* created a session; setSessionId (the cleanup of the effect on the former
\* sessionId runs), setMessages([]); or setError
CreateResolve(ok) ==
  /\ chat.creating > 0
  /\ LET c == [chat EXCEPT !.creating = @ - 1]
     IN IF ok
        THEN ChatOnly([Cleanup(c) EXCEPT !.sessions = Append(@, 0),
                                         !.sessionId = Len(c.sessions) + 1,
                                         !.messages = <<>>])
        ELSE ChatOnly([c EXCEPT !.error = TRUE])

\* chatAPI.createSession settles after its ChatInterface was dismissed
OrphanCreateResolve(ok) ==
  /\ chat.orphans > 0
  /\ LET c == [chat EXCEPT !.orphans = @ - 1]
     IN ChatOnly(IF ok THEN [c EXCEPT !.sessions = Append(@, 0)] ELSE c)

\* A chat message: <<role, number of the send>>
ChatMsg(role, n) == <<role, n>>

\* prev.slice(0, -1)
DropLast(q) == IF q = <<>> THEN <<>> ELSE SubSeq(q, 1, Len(q) - 1)

\* What settles a failed chatAPI.sendMessage: a response that is not ok, by
\* its status, or no response at all (fetch rejects), written Null
FailureStatuses == {Null, 400 + 4, 500}

\* The error chatAPI.sendMessage throws, as <<message, status in the message>>
SESSION_EXPIRED == <<"Chat session expired", Null>>

SendError_Mut(status) == <<"Failed to send message", status>>

SendError(status) ==
  IF status = Null THEN <<"Failed to fetch", Null>>
  ELSE IF status = 400 + 4 THEN SESSION_EXPIRED
  ELSE <<"Failed to send message", status>>

\* sendMessage of the hook up to its await, with a non-empty input: it tests
\* sessionId only
hookSendMessage ==
  /\ chat.open
  /\ chat.sessionId # Null
  /\ chat.sent < MaxSends
  /\ ChatOnly([chat EXCEPT !.error = FALSE, !.loading = TRUE,
                           !.messages = Append(@, ChatMsg("user", chat.sent + 1)),
                           !.sending = TRUE, !.before = chat.messages,
                           !.sent = @ + 1,
                           !.status = Null, !.thrown = <<>>,
                           !.calls = @ \cup {chat.sent + 1}])

\* handleSendMessage of ChatInterface: if (!input.trim() || loading) return
sendMessage ==
  /\ ~chat.loading
  /\ hookSendMessage

\* chatAPI.sendMessage of send n settles; on a failure the hook stores
\* err.message and throws err to its caller
SendSettle(n, ok) ==
  /\ n \in chat.calls
  /\ LET rest == chat.calls \ {n}
         c == [chat EXCEPT !.calls = rest, !.sending = (rest # {}),
                           !.before = IF rest = {} THEN <<>> ELSE @,
                           !.loading = FALSE]
     IN IF ok
        THEN ChatOnly([c EXCEPT !.messages = Append(@, ChatMsg("assistant", n))])
        ELSE \E status \in FailureStatuses :
               ChatOnly([c EXCEPT !.messages = DropLast(@), !.error = TRUE,
                                  !.status = status,
                                  !.thrown = SendError(status)])

\* a send in flight settles
SendResolve(ok) == \E n \in chat.calls : SendSettle(n, ok)

\* The modal and the session of the hook
NextSession ==
  \/ OpenChat
  \/ CloseChat
  \/ SessionEffect
  \/ \E ok \in BOOLEAN : CreateResolve(ok)
  \/ \E ok \in BOOLEAN : OrphanCreateResolve(ok)
  \/ \E ok \in BOOLEAN : DeleteResolve(ok)

NextChat ==
  \/ NextSession
  \/ sendMessage
  \/ \E ok \in BOOLEAN : SendResolve(ok)

\* ------------------------------------------------------------------------
\* The submission upload control (UploadSubmission)
\* ------------------------------------------------------------------------
\* file: the chosen file or Null; handle: the characters of the trimmed
\* student handle; done: the isCompleted the effects saw last; uploads:
\* history, the onUpload calls made for the chosen file
NoForm == [file |-> Null, handle |-> 0, done |-> FALSE, uploads |-> 0]

Files == 1..NumFiles

\* isCompleted={!!state.selectedSubmission}
isCompleted(s) == s.selectedSubmission # Null

\* fileInputDisabled = disabled || loading || isCompleted, with
\* canUploadSubmission = true
fileInputDisabled(s) ==
  \/ /\ s.loading = LOADING_STATES.UPLOADING
     /\ s.progress # Absent
     /\ s.progress[2] = "submission"
  \/ isCompleted(s)

\* if (file && studentHandle.trim() && !isCompleted)
Triggers(f, s) == f.file # Null /\ f.handle > 0 /\ ~isCompleted(s)

\* The effect on [file, studentHandle, onUpload, isCompleted] after a render
\* with the control state f: onUpload(file, handle), setStudentHandle("")
UploadEffect(f, after) ==
  IF Triggers(f, state)
  THEN /\ EnqueueStep(MaxUploads, EnqueueAppend(uploadQueue, NewTask("submission")))
       /\ form' = [after EXCEPT !.handle = 0, !.uploads = f.uploads + 1]
       /\ UNCHANGED <<state, isProcessingQueue, procs, evals, pendingClear,
                      lastStarted, chat, logLimit>>
  ELSE /\ form' = after
       /\ UNCHANGED <<state, uploadQueue, isProcessingQueue, procs, evals,
                      pendingClear, nextTask, lastStarted, chat, logLimit>>

\* onChange of the student handle field: one more character
setStudentHandle ==
  /\ ~isCompleted(state)
  /\ form.handle < MaxKeys
  /\ LET f == [form EXCEPT !.handle = @ + 1]
     IN UploadEffect(f, f)

\* onChange of the file input
handleFileChange(newFile) ==
  /\ ~fileInputDisabled(state)
  /\ LET f == [form EXCEPT !.file = newFile, !.uploads = 0]
     IN UploadEffect(f, f)

\* A render with another isCompleted: the effect on [isCompleted] resets
\* file and handle when not completed, then the upload effect runs on the
\* values of that render
CompletedEffect ==
  /\ form.done # isCompleted(state)
  /\ LET seen == [form EXCEPT !.done = isCompleted(state)]
     IN UploadEffect(seen,
                     IF isCompleted(state) THEN seen
                     ELSE [seen EXCEPT !.file = Null, !.handle = 0, !.uploads = 0])

NextForm ==
  \/ setStudentHandle
  \/ \E newFile \in Files : handleFileChange(newFile)
  \/ CompletedEffect

\* ------------------------------------------------------------------------
\* The page after its first render, keeping the latest limit log messages
Start(limit) ==
  /\ state = InitialState
  /\ uploadQueue = <<>>
  /\ isProcessingQueue = FALSE
  /\ procs = [p \in Slots |-> FreeProc]
  /\ evals = [i \in Runs |-> NoEval]
  /\ pendingClear = 0
  /\ nextTask = 1
  /\ lastStarted = 0
  /\ chat = NoChat
  /\ logLimit = limit
  /\ form = NoForm

Init == Start(0)

InitLog == Start(MaxLog)

InitHistory == Start(MaxHistory)

\* Progress reports of an upload call in flight
NextTransport ==
  \/ \E p \in Slots, inc \in Increments : UploadTick(p, inc)
  \/ \E p \in Slots, up \in Loaded : XhrProgress(p, up)

\* The selection handlers
NextSelect(rubrics, lib) ==
  \/ \E rubric \in rubrics : handleRubricSelect(rubric)
  \/ \E question \in lib : handleQuestionSelect(question)
  \/ \E submission \in lib : handleSubmissionSelect(submission)

\* The upload queue
NextProcess ==
  \/ \E p \in Slots : processUploadQueue(p)
  \/ \E p \in Slots : XhrLoad(p)
  \/ \E p \in Slots : XhrFail(p)
  \/ \E p \in Slots, ok \in BOOLEAN : UploadResolve(p, ok)
  \/ \E p \in Slots, ok \in BOOLEAN : FetchResolve(p, ok)

NextUpload(limit) ==
  \/ handleRubricUpload(limit)
  \/ handleQuestionUpload(limit)
  \/ handleSubmissionUpload(limit)
  \/ NextProcess

\* The evaluation orchestrator, with at most n activations alive
NextEvaluate(n) ==
  \/ \E i \in 1..n : handleEvaluate(i)
  \/ \E i \in 1..n, ok \in BOOLEAN : BuildResolve(i, ok)
  \/ \E i \in 1..n : PadElapsed(i)
  \/ \E i \in 1..n, ok \in BOOLEAN : Build2Resolve(i, ok)
  \/ \E i \in 1..n, ok \in BOOLEAN, evalId \in EvalIds : EvalResolve(i, ok, evalId)
  \/ DelayedClear

\* The interval timers of the orchestrator
NextTimer ==
  \E i \in Runs : EvalTick(i)

Next ==
  \/ NextSelect(LibIds(NumLib), LibIds(NumLib))
  \/ handleNewEvaluation
  \/ NextUpload(MaxBusy)
  \/ NextEvaluate(MaxRuns)
  \/ NextTimer

\* The page with uploads that settle before the first tick of their timer
Spec == Init /\ [][Next]_vars

\* The page while the evaluate button is not used, with uploads that settle
\* before the first tick of their timer
SpecUpload ==
  Init /\ [][\/ NextSelect(LibIds(NumLib), LibIds(NumLib))
            \/ handleNewEvaluation
            \/ NextUpload(MaxUploads)]_vars

\* The upload queue with the progress reports of the upload calls
SpecTransport ==
  Init /\ [][\/ NextSelect(LibIds(NumLib), LibIds(NumLib))
            \/ handleNewEvaluation
            \/ NextUpload(MaxBusy)
            \/ NextTransport]_vars

\* The page while no file is uploaded and the session is not reset: the
\* evaluate button stays disabled while an activation builds or evaluates
SpecSelect ==
  Init /\ [][\/ NextSelect(LibIds(NumChoices), LibIds(NumLib))
            \/ NextEvaluate(MaxRuns)]_vars

\* Selections, the evaluation orchestrator and the chat
SpecChat ==
  Init /\ [][\/ NextSelect(LibIds(NumLib), LibIds(NumLib))
            \/ NextEvaluate(MaxRuns)
            \/ NextChat]_vars

\* The upload queue with the activity log
SpecUploadLog ==
  InitLog /\ [][\/ NextSelect(LibIds(NumLib), LibIds(NumLib))
               \/ handleNewEvaluation
               \/ NextUpload(MaxBusy)]_vars

\* Selections and the evaluation orchestrator with the activity log
SpecEvalLog ==
  InitLog /\ [][\/ NextSelect(LibIds(NumLib), LibIds(NumLib))
               \/ NextEvaluate(MaxRuns)]_vars

\* The page with the whole activity log, while the log has at most
\* MaxHistory messages
\* a step appends at most two messages (a handler settles, the next starts)
Room == Len(state.messages) + 2 <= MaxHistory

HistorySelect == Room /\ NextSelect(LibIds(NumLib), LibIds(NumLib))

HistoryReset == Room /\ handleNewEvaluation

HistoryUpload == Room /\ NextUpload(MaxBusy)

HistoryEvaluate == Room /\ NextEvaluate(MaxAlone)

SpecHistory ==
  InitHistory /\ [][\/ HistorySelect
                   \/ HistoryReset
                   \/ HistoryUpload
                   \/ HistoryEvaluate]_vars

\* The chat with a caller of the hook that sends without waiting for the
\* reply to its former message
SpecHook ==
  Init /\ [][\/ NextSelect(LibIds(NumLib), LibIds(NumLib))
            \/ NextEvaluate(MaxAlone)
            \/ NextSession
            \/ hookSendMessage
            \/ \E ok \in BOOLEAN : SendResolve(ok)]_vars

\* Selections and the orchestrator with the ticks of its interval timers
SpecTimer ==
  Init /\ [][\/ NextSelect(LibIds(NumLib), LibIds(NumLib))
            \/ NextEvaluate(MaxRuns)
            \/ NextTimer]_vars

\* The submission upload control with the selectors and the upload queue
SpecForm ==
  Init /\ [][\/ NextSelect(LibIds(NumLib), LibIds(NumLib))
            \/ NextProcess
            \/ NextForm]_vars

\* ------------------------------------------------------------------------
\* Properties
\* ------------------------------------------------------------------------
Range(f) == {f[k] : k \in DOMAIN f}

Busy(p) == procs[p].pc # "free"

\* The task whose handler activation p is running
Current(p) == Head(procs[p].rest)

\* In this step activation p calls the handler of the next captured task
HandlerStarts(p) ==
  /\ procs'[p].pc = "upload"
  /\ procs[p].pc # "upload" \/ procs'[p].rest # procs[p].rest

\* The ids a handler is called with differ from the ids the store selects
ArgsStale(task, rubric_id, question_id, s) ==
  CASE task.type = "rubric" -> FALSE
    [] task.type = "question" -> rubric_id # s.selectedRubric
    [] task.type = "submission" ->
         rubric_id # s.selectedRubric \/ question_id # s.selectedQuestion

\* Task t is in the queue before this step and not after it
Leaves(t) == t \in Range(uploadQueue) /\ t \notin Range(uploadQueue')

\* In this step the loop of processUploadQueue passes task t: its handler
\* returns, or the loop finds its prerequisite missing and calls no handler
Passed(t) ==
  \/ \E p \in Slots : /\ Busy(p)
                      /\ t \in Range(procs[p].rest)
                      /\ t \notin Range(procs'[p].rest)
  \/ /\ nextTask' = nextTask
     /\ ~isProcessingQueue
     /\ ~Dispatchable(t, state.selectedRubric, state.selectedQuestion)

InFlightCalls == {i \in Runs : evals[i].pc \in {"build1", "build2", "eval"}}

\* C1: a question is selected only if a rubric is selected, and a submission
\* only if both a rubric and a question are selected.
C1_NoOrphan ==
  /\ state.selectedQuestion # Null => state.selectedRubric # Null
  /\ state.selectedSubmission # Null =>
       state.selectedRubric # Null /\ state.selectedQuestion # Null

C3_ContextOfSelection == state.fusion # Absent => ContextCurrent(state)

\* C4: a result is stored only while a context is stored.
C4_ResultNeedsContext == state.result # Absent => state.fusion # Absent

\* C5: an evaluate call is issued only while the store holds a context for
\* the selected ids, after a successful build of the same activation or with
\* a context found stored.
C5_EvaluateHasContext ==
  \A i \in Runs :
    evals[i].pc = "eval" =>
      /\ evals[i].evalCtx
      /\ evals[i].f \/ evals[i].nBuild >= 1

\* C6: an activation that starts without a stored context has issued exactly
\* one build call when it issues its evaluate call, and exactly one evaluate
\* call.
C6_OneBuildOneEvaluate ==
  \A i \in Runs :
    (evals[i].pc = "eval" /\ ~evals[i].f) =>
      evals[i].nBuild = 1 /\ evals[i].nEval = 1

\* C7: at most one build or evaluate call of the orchestrator is in flight.
C7_NoOverlap == Cardinality(InFlightCalls) <= 1

\* C8: at most one upload handler is in flight, and handlers start in the
\* order in which their tasks were enqueued.
C8_Fifo ==
  /\ [](Cardinality({p \in Slots : Busy(p)}) <= 1)
  /\ [][\A p \in Slots :
          HandlerStarts(p) => Head(procs'[p].rest).id > lastStarted]_vars

\* The handler of a later task has started while more tasks are pending
C8_Witness ==
  /\ lastStarted >= 2
  /\ \E p \in Slots : Busy(p)
  /\ Len(uploadQueue) >= 2

\* C9: an enqueue appends the task and keeps the pending ones; a task leaves
\* the queue only when the loop passes it.
C9_NoTaskLost ==
  [][/\ nextTask' # nextTask =>
          uploadQueue' = Append(uploadQueue, uploadQueue'[Len(uploadQueue')])
     /\ \A t \in Range(uploadQueue) : Leaves(t) => Passed(t)]_vars

\* C10: a question or submission task is not dropped while the store holds
\* its prerequisite, and its handler is called with the ids the store
\* selects at that time.
C10_DependentWaits ==
  [][/\ \A t \in Range(uploadQueue) :
          (/\ t.type # "rubric"
           /\ Leaves(t)
           /\ nextTask' = nextTask
           /\ ~\E p \in Slots : Busy(p) /\ Current(p) = t)
          => ~PrereqInStore(t, state')
     /\ \A p \in Slots :
          HandlerStarts(p) =>
            ~ArgsStale(Head(procs'[p].rest), procs'[p].rubric_id,
                       procs'[p].question_id, state')]_vars

\* The store s with n warnings appended to its log
Warned(s, n) ==
  [s EXCEPT !.messages = LastN(@ \o [k \in 1..n |-> "warning"], logLimit)]

\* C11: when the processor reaches only question or submission tasks whose
\* prerequisite is not selected, it issues no upload or fetch call and
\* produces one warning message for each such task.
C11_WarnsWithoutPrerequisite ==
  [][\A p \in Slots :
       (/\ processUploadQueue(p)
        /\ \A t \in Range(uploadQueue) :
             ~Dispatchable(t, state.selectedRubric, state.selectedQuestion))
       => /\ procs' = procs
          /\ state' = Warned(state, Len(uploadQueue))]_vars

\* C12: every session the server created has had exactly one delete-session
\* call, except the session the open chat holds, which has had none.
C12_OneDeletePerSession ==
  \A k \in DOMAIN chat.sessions :
    chat.sessions[k] = IF chat.open /\ chat.sessionId = k THEN 0 ELSE 1

\* C13: a send appends the user message; its success appends the assistant
\* message right after that user message; its failure leaves the messages
\* as they were before the send and sets the error.
C13_SendAppendsOrRollsBack ==
  [][/\ sendMessage =>
          chat'.messages = Append(chat.messages, ChatMsg("user", chat'.sent))
     /\ SendResolve(TRUE) =>
          chat'.messages = chat.before \o <<ChatMsg("user", chat.sent),
                                            ChatMsg("assistant", chat.sent)>>
     /\ SendResolve(FALSE) =>
          chat'.messages = chat.before /\ chat'.error]_vars

\* C14: when the chat opens, or renders with another evaluation, a
\* create-session call is issued exactly if a result is stored, and a
\* successful call stores the id of the session it created.
C14_CreateIffResult ==
  [][/\ (OpenChat \/ SessionEffect) =>
          (chat'.creating = chat.creating + 1 <=> state.result # Absent)
     /\ CreateResolve(TRUE) =>
          chat'.sessionId = Len(chat'.sessions)]_vars

\* C15: the percentage one upload operation reports is non-decreasing over
\* time, for every interleaving of the ticks of the interval timer and the
\* progress events of the transport; the store shows what was reported.
InFlight(p) == procs[p].pc \in {"upload", "loaded", "fetch"}

Reports(p) ==
  \/ \E inc \in Increments : UploadTick(p, inc)
  \/ \E up \in Loaded : XhrProgress(p, up)
  \/ XhrLoad(p)

C15_ProgressMonotone ==
  [][\A p \in Slots :
       /\ (InFlight(p) /\ ~HandlerStarts(p) /\ procs'[p].pc # "free")
            => procs'[p].last >= procs[p].last
       /\ Reports(p)
            => state'.progress = <<"upload", Head(procs[p].rest).type, procs'[p].last>>]_vars

\* a tick and a progress event have both reported for one upload
C15_Witness ==
  \E p \in Slots :
    /\ procs[p].pc = "upload"
    /\ procs[p].ticks >= 1
    /\ procs[p].pv \in {Min(up * 3, 300) + inc : up \in Loaded, inc \in Increments}
                     \cup {300}

\* C16: an upload shows 100 percent only once it is confirmed complete (the
\* upload call and the fetch by id both succeeded); before that the reported
\* value stays at or below the ceiling of the simulated progress, and an
\* upload that ends in failure has never reported 100.
UPLOAD_CEILING == 85

UploadFails(p) ==
  \/ XhrFail(p)
  \/ UploadResolve(p, FALSE)
  \/ FetchResolve(p, FALSE)

C16_HundredOnlyWhenComplete ==
  /\ [](\A p \in Slots : InFlight(p) => procs[p].last <= UPLOAD_CEILING)
  /\ [][\A p \in Slots : UploadFails(p) => procs[p].last # 100]_vars

\* C17: when the build call or the evaluate call of an activation fails, its
\* interval timer is stopped, the progress is cleared, exactly one failure
\* message is appended to the activity log, the activation issues no further
\* call, loading returns to idle and the stored result is what it was.
EvalFails(i) ==
  \/ BuildResolve(i, FALSE)
  \/ Build2Resolve(i, FALSE)
  \/ \E evalId \in EvalIds : EvalResolve(i, FALSE, evalId)

C17_FailureStops ==
  [][\A i \in Runs :
       EvalFails(i)
       => /\ ~evals'[i].timer
          /\ evals'[i].pc = "none"
          /\ state'.progress = Absent
          /\ state'.loading = LOADING_STATES.IDLE
          /\ state'.result = state.result
          /\ state'.messages = LastN(Append(state.messages, "failure"), logLimit)]_vars

\* an evaluate call has just failed after its context was built
C17_Witness ==
  /\ state.messages # <<>>
  /\ state.messages[Len(state.messages)] = "failure"
  /\ state.fusion # Absent
  /\ \A i \in Runs : evals[i].pc = "none"

\* C18: handleEvaluate called while the rubric, the question or the
\* submission is not selected issues no call and changes nothing of the
\* store but the activity log, which receives the warning.
C18_RefusedWithoutSelection ==
  [][\A i \in Runs :
       (handleEvaluate(i) /\ ~canEvaluate(state))
       => /\ evals' = evals
          /\ state' = [state EXCEPT
                         !.messages = LastN(Append(@, "warning"), logLimit)]]_vars

\* the warning of the entry guard is the last message of the log
C18_Witness ==
  /\ state.messages # <<>>
  /\ state.messages[Len(state.messages)] = "warning"
  /\ ~canEvaluate(state)

\* C19: an activation that starts while a context is stored for the current
\* selection issues no build call and exactly one evaluate call, and none
\* of its steps changes the stored context.
RunSteps(i) ==
  \/ handleEvaluate(i)
  \/ EvalTick(i)
  \/ \E ok \in BOOLEAN, evalId \in EvalIds : EvalResolve(i, ok, evalId)

C19_StoredContextReused ==
  /\ [](\A i \in Runs :
          (evals[i].pc # "none" /\ evals[i].f)
          => evals[i].pc = "eval" /\ evals[i].nBuild = 0 /\ evals[i].nEval = 1)
  /\ [][\A i \in Runs :
          (/\ RunSteps(i)
           /\ \/ evals[i].f
              \/ evals[i].pc = "none" /\ canEvaluate(state) /\ ContextCurrent(state))
          => /\ state'.fusion = state.fusion
             /\ evals'[i].nBuild = 0]_vars

\* an activation that found the context stored awaits its evaluate call
C19_Witness ==
  \E i \in Runs : evals[i].f /\ evals[i].pc = "eval" /\ ContextCurrent(state)

\* C20: when the upload call or the fetch by id of a task fails, the task
\* writes nothing to the selection and issues no fetch after a failed
\* upload, its progress is cleared, the task is no longer in the queue, and
\* the tasks queued behind it are still processed: none of them leaves the
\* queue without the loop passing it.
C20_FailureAbortsTaskOnly ==
  [][\A p \in Slots :
       UploadFails(p)
       => LET t == Head(procs[p].rest)
          IN /\ state'.selectedRubric = state.selectedRubric
             /\ state'.selectedQuestion = state.selectedQuestion
             /\ state'.selectedSubmission = state.selectedSubmission
             /\ procs'[p].pc # "fetch"
             /\ state'.progress = Absent \/ HandlerStarts(p)
             /\ t \notin Range(uploadQueue')
             /\ \A u \in Range(uploadQueue) \ {t} : Leaves(u) => Passed(u)]_vars

\* C21: a call that resolves after the selection it was issued for has been
\* changed or reset writes nothing into the store: no rubric, question or
\* submission from an upload, no context from a build call, no result from
\* an evaluate call.
Selection(s) == <<s.selectedRubric, s.selectedQuestion, s.selectedSubmission>>

C21_StaleResolutionIgnored ==
  [][/\ \A i \in Runs :
          (/\ evals[i].pc # "none"
           /\ <<evals[i].r, evals[i].q, evals[i].s>> # Selection(state)
           /\ \/ BuildResolve(i, TRUE)
              \/ \E evalId \in EvalIds : EvalResolve(i, TRUE, evalId))
          => state'.fusion = state.fusion /\ state'.result = state.result
     /\ \A p \in Slots :
          (/\ FetchResolve(p, TRUE)
           /\ ArgsStale(Head(procs[p].rest), procs[p].rubric_id,
                        procs[p].question_id, state))
          => Selection(state') = Selection(state)]_vars

\* C22: the activity log is append-only: every step other than the 'new
\* evaluation' reset keeps the log it finds as a prefix of the log it
\* leaves; the reset empties it.
IsPrefix(a, b) == Len(a) <= Len(b) /\ SubSeq(b, 1, Len(a)) = a

C22_LogAppendOnly ==
  [][IF handleNewEvaluation
     THEN state'.messages = <<"note">>
     ELSE IsPrefix(state.messages, state'.messages)]_vars

\* the log holds a failure after earlier entries
C22_Witness ==
  /\ Len(state.messages) >= 3
  /\ state.messages[Len(state.messages)] = "failure"
  /\ state.messages[1] = "note"

\* C23: a 404 response to a send is surfaced to the caller as an error of
\* its own, which no other send failure produces; every other response that
\* is not ok is surfaced as the generic failure with its status.
C23_ExpiredIsDistinct ==
  chat.thrown # <<>> =>
    /\ chat.thrown = SESSION_EXPIRED <=> chat.status = 400 + 4
    /\ chat.status \notin {Null, 400 + 4} =>
         chat.thrown = <<"Failed to send message", chat.status>>

\* one send has failed with a 404
C23_Witness ==
  chat.error /\ chat.status = 400 + 4 /\ chat.thrown = SESSION_EXPIRED

\* C24: once the result a chat was opened for is cleared and the chat has
\* rendered with it, the chat holds no session id and no history, and no
\* message is sent while there is no result.
C24_SessionDiesWithResult ==
  /\ [](/\ chat.open
        /\ state.result = Absent
        /\ chat.dep = EvalDataId(state)
        => chat.sessionId = Null /\ chat.messages = <<>>)
  /\ [][sendMessage => state.result # Absent]_vars

\* C25: loading is 'idle' exactly when no upload handler is in flight and no
\* activation of the orchestrator is running.
Running ==
  \/ \E p \in Slots : Busy(p)
  \/ \E i \in Runs : evals[i].pc # "none"

C25_IdleIffNothingRuns ==
  state.loading = LOADING_STATES.IDLE <=> ~Running

\* C26: the delayed clearProgress of a finished evaluation does not set the
\* progress to absent while a later upload or evaluation is in flight and
\* shows its progress.
C26_DelayedClearOwnProgress ==
  [][(DelayedClear /\ Running /\ state.progress # Absent)
       => state'.progress # Absent]_vars

\* C27: when two sends overlap and one fails, the rollback removes the user
\* message of the failed send and leaves the messages of the other send.
Without(q, m) == SelectSeq(q, LAMBDA x : x # m)

C27_RollbackOwnMessage ==
  [][\A n \in 1..MaxSends :
       (/\ SendSettle(n, FALSE)
        /\ chat.calls # {n}
        /\ \A m \in chat.calls : ChatMsg("user", m) \in Range(chat.messages))
       => chat'.messages = Without(chat.messages, ChatMsg("user", n))]_vars

\* C28: when a created session replaces the session the hook holds, the hook
\* issues exactly one delete call, for the replaced id, and empties the
\* history; with no session held it issues no delete call; a delete call
\* that settles, failing or not, changes nothing in the client.
C28_ReplacedSessionDeleted ==
  [][/\ CreateResolve(TRUE)
          => /\ chat'.messages = <<>>
             /\ chat'.sessionId = Len(chat'.sessions)
             /\ \A k \in DOMAIN chat.sessions :
                  chat'.sessions[k] =
                    chat.sessions[k] + (IF k = chat.sessionId THEN 1 ELSE 0)
             /\ chat'.deleting =
                  chat.deleting + (IF chat.sessionId # Null THEN 1 ELSE 0)
     /\ \A ok \in BOOLEAN :
          DeleteResolve(ok)
          => /\ state' = state
             /\ [chat' EXCEPT !.deleting = chat.deleting] = chat]_vars

\* a second session has replaced the first, which got its delete call
C28_Witness ==
  /\ chat.open
  /\ chat.sessionId = 2
  /\ chat.sessions = <<1, 0>>

\* C29: an activation that is over holds no interval timer; an activation
\* never has two live timers (none is overwritten uncleared), and none during
\* the pause after a build; a tick only occurs while its activation awaits a
\* call.
C29_TimersCancelled ==
  /\ [](\A i \in Runs :
          /\ evals[i].pc \in {"none", "pad"} => ~evals[i].timer
          /\ evals[i].leaked = 0)
  /\ [][\A i \in Runs :
          EvalTick(i) => evals[i].pc \in {"build1", "build2", "eval"}]_vars

\* the timer of a build has ticked and was cancelled when the build resolved
C29_Witness ==
  \E i \in Runs :
    evals[i].pc = "pad" /\ evals[i].ticks >= 1 /\ ~evals[i].timer

\* C30: the submission control calls its upload callback at most once for a
\* chosen file: after the upload of the file was triggered, typing in the
\* student handle field triggers no further upload of that file.
C30_OneUploadPerEntry == form.uploads <= 1

====
